---- MODULE Spec2Model ----
(***************************************************************************)
(* Model of the real-time audio segmentation and transcription-dispatch    *)
(* pipeline of apps/desktop/src/hooks/useAudio.ts.                          *)
(*                                                                         *)
(* Representation.                                                         *)
(*  - A sample sequence (number[]) is kept run-length encoded: a sequence  *)
(*    of runs [v |-> value, c |-> count] with no empty run and no two      *)
(*    adjacent runs of equal value, so that two encodings are equal iff    *)
(*    the sample sequences are equal.  Sample values are in hundredths     *)
(*    (3 is the float sample 0.03, 200 the sample 2.0).                    *)
(*  - Normalized loudness is in ten-thousandths, rounded down (300 is      *)
(*    0.03); the thresholds are multiples of that unit, so comparisons     *)
(*    with them are exact.                                                 *)
(*  - chunkSeconds is in tenths of a second (25 is 2.5 s).                 *)
(*  - A string is a sequence of one-character strings.                     *)
(*  - null is the value null of a `number | null` ref.                     *)
(*                                                                         *)
(* Environment.  Frames arrive one at a time with strictly increasing      *)
(* timestamps; a call of invoke('transcribe_audio') may resolve or reject  *)
(* at any later time, in any order; resetAudio, a settings update and the  *)
(* effect that installs the re-created frame handler may run between any   *)
(* two of these.  hist records the history of the run that the properties  *)
(* refer to; the program does not read it.                                 *)
(*                                                                         *)
(* The handlers of apps/desktop/src/App.tsx that start and stop a          *)
(* recording are modelled with the invokes they await (appCalls) and the   *)
(* post-call timer; they run in SpecApp only.                              *)
(***************************************************************************)
EXTENDS Integers, Sequences, FiniteSets, TLC

VARIABLES
    audioBuffer,          \* audioBufferRef.current   (pendingSamples)
    sampleRateRef,        \* sampleRateRef.current    (sampleRate)
    speaking,             \* speakingRef.current
    lastVoiceMs,          \* lastVoiceMsRef.current   (lastVoiceAt)
    transcribing,         \* transcribingRef.current
    lastSnippet,          \* lastSnippetRef.current   (lastAcceptedText)
    transcript,           \* React state transcript
    levels,               \* React state levels
    frameCount,           \* React state frameCount
    chunkSeconds,         \* React state chunkSeconds
    handlerChunkSeconds,  \* chunkSeconds captured by handlerRef.current
    calls,                \* invoke('transcribe_audio') promises not yet settled
    clock,                \* timestamp of the latest frame (null before the first)
    isRecording,          \* React state isRecording of useAudio
    appState,             \* React state appState of App
    lastSessionId,        \* React state lastSessionId of App
    appCalls,             \* invokes awaited by the App handlers, not yet settled
    savedSessions,        \* transcripts passed to invoke('save_session')
    timers,               \* pending setTimeout callbacks of handleStopRecording
    subs,                 \* runs of the effect that subscribes to 'audio:frame'
    summaryCall,          \* the generateSummary call of a cloud provider
    hist                  \* history of the run (session number, counters, last step)

vars == << audioBuffer, sampleRateRef, speaking, lastVoiceMs, transcribing,
           lastSnippet, transcript, levels, frameCount, chunkSeconds,
           handlerChunkSeconds, calls, clock, isRecording, appState,
           lastSessionId, appCalls, savedSessions, timers, subs, summaryCall,
           hist >>

audioVars == << audioBuffer, sampleRateRef, speaking, lastVoiceMs, transcribing,
                lastSnippet, transcript, levels, frameCount, chunkSeconds,
                handlerChunkSeconds, calls, clock >>

appVars == << isRecording, appState, lastSessionId, appCalls, savedSessions, timers,
             subs, summaryCall >>

-----------------------------------------------------------------------------
(* Bounds of the model *)
MaxFrames == 3
MaxCalls == 3
MaxResets == 1
MaxSettings == 1
MaxStreamFrames == 6
MaxTextCalls == 3
MaxAppFrames == 2
MaxStops == 1
MaxLevelFrames == 62
MaxMounts == 2
MaxRetries == 2
MaxFlowFrames == 4

(* Program constants *)
null == -1
Infinity == 2000000000
vadOn == 300
vadOff == 200
PauseMs == 450
LevelsCap == 60
Int16Max == 32767
DefaultChunkSeconds == 25
MinChunkSeconds == 10
MaxChunkSeconds == 60

(* Inputs: frame data (run-length encoded), timestamps, sample rates, settings *)
Empty == << >>
Silent8 == << [v |-> 0, c |-> 8000] >>
Soft8 == << [v |-> 0, c |-> 4000], [v |-> 4, c |-> 4000] >>
Loud8 == << [v |-> 3, c |-> 8000] >>
Silent20 == << [v |-> 0, c |-> 20000] >>

FrameDatas == { Empty, Soft8, Loud8, Silent20 }
Times == {0, 50, 499, 500}
SampleRates == {8000, 16000}
ChunkSecondsValues == {20, 25}
Texts == { << "a" >> }

StreamDatas == { Silent8, Loud8 }
StreamTimes == {0, 500, 1000, 1500, 2000, 2500, 3000}
StreamRates == {16000}
StreamTexts == { << "a" >> }

Silent4 == << [v |-> 0, c |-> 4000] >>

ClampDatas == { Silent4, Silent20 }
ClampTimes == {0, 100, 200, 300}
ClampRates == {8000}
ClampValues == {-50, 0, 10, 35, 60, 1000}

(* Frames whose sample_rate changes within a session: loud frames carry   *)
(* 8000, silent frames 16000                                               *)
RateFrames ==
    { f \in [data : {Loud8, Silent20}, timestamp : Times, sample_rate : SampleRates] :
        f.sample_rate = 16000 <=> f.data = Silent20 }

(* One frame per millisecond, each of at most one sample, with loudness   *)
(* 0, 0.01, 0.02, 0, ... by timestamp                                       *)
One1 == << [v |-> 1, c |-> 1] >>
Two1 == << [v |-> 2, c |-> 1] >>

LevelData(t) == IF t % 3 = 0 THEN Empty ELSE IF t % 3 = 1 THEN One1 ELSE Two1

LevelFrames ==
    { [data |-> LevelData(t), timestamp |-> t, sample_rate |-> 8000] :
        t \in 1..MaxLevelFrames }

SubDatas == { Loud8, Silent20 }
SubTimes == {0, 100, 200, 300}
SubRates == {8000}

LiveDatas == { Silent8, Loud8, Silent20 }
LiveTimes == {0, 500, 1000, 1500}
LiveRates == {8000}

FlowDatas == { Loud8, Silent20 }
FlowRates == {8000}
FlowInterval == 500

AppDatas == { Loud8, Silent20 }
AppTimes == {0, 100}
AppRates == {8000}
AppTexts == { << "a" >>, << "b" >> }

(* generateSummary: the providers, the retry counts, what an API attempt   *)
(* gives and how long it takes                                             *)
Providers == { "claude", "openai" }
RetryValues == 0..MaxRetries
StartTimes == {0, 500}
ApiDurations == {10, 20}
Usages == { [input |-> null, output |-> null, total |-> null],
            [input |-> 3, output |-> 4, total |-> 7] }
Responses ==
    [kind : {"rejected"}, content : {"none"}, usage : {[input |-> null, output |-> null, total |-> null]}]
    \cup [kind : {"resolved"}, content : {"none", "garbage", "summary"}, usage : Usages]

TextDatas == { Empty, Silent20 }
TextTimes == {0, 100, 200, 300}
TextRates == {8000}
TextNumbers == {0, 5}
TextTexts == { << >>, << " " >>, << "a" >>, << " ", "a", " " >>, << "b" >> }

Min(a, b) == IF a <= b THEN a ELSE b
Max(a, b) == IF a >= b THEN a ELSE b

-----------------------------------------------------------------------------
(* number[] helpers *)

RECURSIVE Length(_)
Length(buf) ==
    IF buf = << >> THEN 0 ELSE Head(buf).c + Length(Tail(buf))

PushRun(buf, run) ==
    IF run.c = 0 THEN buf
    ELSE IF buf # << >> /\ buf[Len(buf)].v = run.v
         THEN [buf EXCEPT ![Len(buf)].c = @ + run.c]
         ELSE Append(buf, run)

RECURSIVE Push(_, _)
Push(buf, data) ==
    IF data = << >> THEN buf
    ELSE Push(PushRun(buf, Head(data)), Tail(data))

RECURSIVE SumSq(_)
SumSq(data) ==
    IF data = << >> THEN 0
    ELSE Head(data).c * Head(data).v * Head(data).v + SumSq(Tail(data))

RECURSIVE ISqrtIn(_, _, _)
ISqrtIn(x, lo, hi) ==
    IF lo = hi THEN lo
    ELSE LET mid == (lo + hi + 1) \div 2
         IN  IF mid * mid <= x THEN ISqrtIn(x, mid, hi) ELSE ISqrtIn(x, lo, mid - 1)

ISqrt(x) == ISqrtIn(x, 0, 40000)

Truthy(x) == x # null /\ x # 0

-----------------------------------------------------------------------------
(* Segment accumulator: the sample rate *)

LatchSampleRateEveryFrame(current, rate) == rate

LatchSampleRate(current, rate) == IF ~Truthy(current) THEN rate ELSE current

-----------------------------------------------------------------------------
(* Level meter *)

Normalized(data) ==
    LET n    == Max(1, Length(data))
        s    == SumSq(data)
        q    == s \div n
        r    == s % n
        rms4 == ISqrt(q * 10000 + (r * 10000) \div n)
    IN  IF s > n * 10000
        THEN Min(10000, rms4 \div Int16Max)
        ELSE Min(10000, rms4)

PushLevelNoEvict(prev, normalized) == Append(prev, normalized)

PushLevel(prev, normalized) ==
    LET next == Append(prev, normalized)
    IN  IF Len(next) > LevelsCap
        THEN SubSeq(next, Len(next) - LevelsCap + 1, Len(next))
        ELSE next

-----------------------------------------------------------------------------
(* VAD *)

VadSpeakingFollowsLevel(spk, normalized) ==
    IF ~spk /\ normalized >= vadOn THEN TRUE
    ELSE IF spk /\ normalized < vadOff THEN FALSE ELSE spk

VadSpeaking(spk, normalized) ==
    IF ~spk /\ normalized >= vadOn THEN TRUE ELSE spk

VadLastVoiceEveryFrame(spk, lastVoice, normalized, nowMs) ==
    IF spk THEN nowMs ELSE lastVoice

VadLastVoice(spk, lastVoice, normalized, nowMs) ==
    IF spk
    THEN IF normalized >= vadOff THEN nowMs
         ELSE IF lastVoice = null THEN nowMs ELSE lastVoice
    ELSE lastVoice

-----------------------------------------------------------------------------
(* Flush policy *)

ClampChunkSecondsLowerOnly(v) == Max(MinChunkSeconds, v)

ClampChunkSeconds(v) == Max(MinChunkSeconds, Min(MaxChunkSeconds, v))

NeededSamplesWholeSeconds(sr, cs) == IF Truthy(sr) THEN sr * (cs \div 10) ELSE 0

NeededSamples(sr, cs) == IF Truthy(sr) THEN (sr * cs) \div 10 ELSE 0

EnoughForChunkStrict(sr, buf, cs) ==
    IF Truthy(sr) THEN Length(buf) > NeededSamples(sr, cs) ELSE FALSE

EnoughForChunk(sr, buf, cs) ==
    IF Truthy(sr) THEN Length(buf) >= NeededSamples(sr, cs) ELSE FALSE

SilenceGapMs(lastVoice, nowMs) ==
    IF Truthy(lastVoice) THEN nowMs - lastVoice ELSE Infinity

MinUtteranceSamples(sr, cs) ==
    IF Truthy(sr) THEN (sr * Min(10, cs)) \div 10 ELSE 0

PauseDetected(spk, lastVoice, nowMs, sr, buf, cs) ==
    /\ spk
    /\ SilenceGapMs(lastVoice, nowMs) >= PauseMs
    /\ Length(buf) >= MinUtteranceSamples(sr, cs)

FlushRequestedPauseOnly(spk, lastVoice, nowMs, sr, buf, cs, busy) ==
    /\ PauseDetected(spk, lastVoice, nowMs, sr, buf, cs)
    /\ ~busy

FlushRequested(spk, lastVoice, nowMs, sr, buf, cs, busy) ==
    /\ EnoughForChunk(sr, buf, cs) \/ PauseDetected(spk, lastVoice, nowMs, sr, buf, cs)
    /\ ~busy

-----------------------------------------------------------------------------
(* Transcription dispatcher *)

FlushGuard(busy, sr, buf) ==
    /\ ~busy
    /\ Truthy(sr)
    /\ Length(buf) # 0

TakeChunkKeep(buf) == [chunk |-> buf, rest |-> buf]

TakeChunkFirstRun(buf) == [chunk |-> << Head(buf) >>, rest |-> Tail(buf)]

TakeChunk(buf) == [chunk |-> buf, rest |-> << >>]

IsSpace(ch) == ch = " "

RECURSIVE TrimStart(_)
TrimStart(s) ==
    IF s # << >> /\ IsSpace(Head(s)) THEN TrimStart(Tail(s)) ELSE s

RECURSIVE TrimEnd(_)
TrimEnd(s) ==
    IF s # << >> /\ IsSpace(s[Len(s)]) THEN TrimEnd(SubSeq(s, 1, Len(s) - 1)) ELSE s

Trim(s) == TrimEnd(TrimStart(s))

(* (transcriptionResult || '') is not a string: .trim() throws a TypeError *)
TrimThrows(result) == ~result.isNull /\ Truthy(result.num)

Cleaned(result) == Trim(IF result.isNull \/ result.num # null THEN << >> ELSE result.text)

AcceptsNonEmpty(cleaned, last) == cleaned # << >>

Accepts(cleaned, last) == cleaned # << >> /\ cleaned # last

AppendText(prev, cleaned) ==
    prev \o (IF prev # << >> THEN << " " >> ELSE << >>) \o cleaned

-----------------------------------------------------------------------------
(* Reference operators for the history kept in hist: what the samples and   *)
(* the text of a step are, computed apart from the operators above.         *)

RECURSIVE Flat(_)
Flat(frames) ==
    IF frames = << >> THEN << >> ELSE Head(frames) \o Flat(Tail(frames))

RECURSIVE Canonical(_)
Canonical(runs) ==
    IF runs = << >> THEN << >>
    ELSE LET h    == Head(runs)
             rest == Canonical(Tail(runs))
         IN  IF h.c = 0 THEN rest
             ELSE IF rest # << >> /\ rest[1].v = h.v
                  THEN << [v |-> h.v, c |-> h.c + rest[1].c] >> \o Tail(rest)
                  ELSE << h >> \o rest

Stripped(result) ==
    LET s   == IF result.isNull THEN << >> ELSE result.text
        idx == { i \in 1..Len(s) : s[i] # " " }
    IN  IF idx = {} THEN << >>
        ELSE SubSeq(s, CHOOSE i \in idx : \A j \in idx : i <= j,
                       CHOOSE i \in idx : \A j \in idx : i >= j)

LastLevel == IF levels = << >> THEN 0 ELSE levels[Len(levels)]

-----------------------------------------------------------------------------
FramesOf(D, T, S) == [data : D, timestamp : T, sample_rate : S]

(* One run of the subscription effect: `active`, whether unlistenFn has   *)
(* been set (the listen() promise resolved) and whether the listener is    *)
(* registered with the event system                                        *)
Subscription(id) ==
    [id |-> id, active |-> TRUE, unlistenFn |-> FALSE, registered |-> FALSE]

(* No generateSummary call has been made *)
NoSummaryCall ==
    [pc |-> "idle", provider |-> "none", retries |-> 0, attempt |-> 0,
     startTime |-> 0, now |-> 0, delay |-> 0, attempts |-> 0, failures |-> 0,
     waited |-> 0, tokens |-> 0, latencyMs |-> 0, error |-> "none"]

(* A value the invoke resolves with: null, a number (num # null) or a string *)
NoResult == [isNull |-> TRUE, num |-> null, text |-> << >>]

ResultsOf(X) == [isNull : {FALSE}, num : {null}, text : X]

NumberResults(N) == [isNull : {FALSE}, num : N, text : { << >> }]

Init ==
    /\ audioBuffer = << >>
    /\ sampleRateRef = null
    /\ speaking = FALSE
    /\ lastVoiceMs = null
    /\ transcribing = FALSE
    /\ lastSnippet = << >>
    /\ transcript = << >>
    /\ levels = << >>
    /\ frameCount = 0
    /\ chunkSeconds = DefaultChunkSeconds
    /\ handlerChunkSeconds = DefaultChunkSeconds
    /\ calls = {}
    /\ clock = null
    /\ isRecording = FALSE
    /\ appState = "idle"
    /\ lastSessionId = null
    /\ appCalls = { [kind |-> "is_recording", id |-> 0, transcript |-> << >>] }
    /\ savedSessions = << >>
    /\ timers = 0
    /\ subs = { Subscription(1) }
    /\ summaryCall = NoSummaryCall
    /\ hist = [ session    |-> 0,
                frames     |-> 0,
                dispatches |-> 0,
                resets     |-> 0,
                stops      |-> 0,
                mounts     |-> 1,
                settings   |-> 0,
                appended   |-> 0,
                handed     |-> 0,
                sinceFlush |-> << >>,
                clean      |-> TRUE,
                rejected   |-> FALSE,
                late       |-> FALSE,
                firstRate  |-> null,
                prevOk     |-> << >>,
                lastText   |-> << >>,
                fragments  |-> << >>,
                op         |-> "init",
                len        |-> 0,
                busy       |-> FALSE,
                wasSpeaking |-> FALSE,
                fired      |-> FALSE,
                call       |-> 0,
                failed     |-> FALSE,
                result     |-> NoResult ]

(* handleAudioFrame, with the synchronous part of flushTranscription *)
HandleAudioFrame(frame) ==
    LET sr1     == LatchSampleRate(sampleRateRef, frame.sample_rate)
        buf1    == Push(audioBuffer, frame.data)
        norm    == Normalized(frame.data)
        nowMs   == frame.timestamp
        spk1    == VadSpeaking(speaking, norm)
        voice1  == VadLastVoice(spk1, lastVoiceMs, norm, nowMs)
        cs      == ClampChunkSeconds(handlerChunkSeconds)
        request == FlushRequested(spk1, voice1, nowMs, sr1, buf1, cs, transcribing)
        start   == request /\ FlushGuard(transcribing, sr1, buf1)
        taken   == TakeChunk(buf1)
        id      == hist.dispatches + 1
    IN  /\ clock = null \/ frame.timestamp > clock
        /\ clock' = frame.timestamp
        /\ frameCount' = frameCount + 1
        /\ sampleRateRef' = sr1
        /\ levels' = PushLevel(levels, norm)
        /\ speaking' = spk1
        /\ lastVoiceMs' = voice1
        /\ IF start
           THEN /\ transcribing' = TRUE
                /\ audioBuffer' = taken.rest
                /\ calls' = calls \cup { [ id |-> id, session |-> hist.session,
                                          chunk |-> taken.chunk, sr |-> sr1,
                                          expect |-> Append(hist.sinceFlush, frame.data) ] }
           ELSE /\ transcribing' = transcribing
                /\ audioBuffer' = buf1
                /\ calls' = calls
        /\ hist' = [ hist EXCEPT
                       !.frames = @ + 1,
                       !.dispatches = IF start THEN id ELSE @,
                       !.appended = @ + Length(frame.data),
                       !.handed = IF start THEN @ + Length(taken.chunk) ELSE @,
                       !.sinceFlush = IF start THEN << >> ELSE Append(@, frame.data),
                       !.rejected = IF start THEN FALSE ELSE @,
                       !.late = IF start THEN FALSE ELSE (@ \/ transcribing),
                       !.firstRate = IF frameCount = 0 THEN frame.sample_rate ELSE @,
                       !.op = "frame",
                       !.len = Length(buf1),
                       !.busy = (calls # {}),
                       !.wasSpeaking = speaking,
                       !.fired = start,
                       !.call = IF start THEN id ELSE 0,
                       !.failed = FALSE,
                       !.result = NoResult ]
        /\ UNCHANGED << lastSnippet, transcript, chunkSeconds, handlerChunkSeconds >>
        /\ UNCHANGED appVars

ResolveKeepVad(call, result) ==
    LET cleaned == Cleaned(result)
        accept  == ~TrimThrows(result) /\ Accepts(cleaned, lastSnippet)
    IN  /\ call \in calls
        /\ calls' = calls \ {call}
        /\ transcript' = IF accept THEN AppendText(transcript, cleaned) ELSE transcript
        /\ lastSnippet' = IF accept THEN cleaned ELSE lastSnippet
        /\ transcribing' = FALSE
        /\ hist' = [ hist EXCEPT !.prevOk = Stripped(result),
                                 !.lastText = IF Stripped(result) # << >> /\ result.num = null
                                              THEN Stripped(result) ELSE @,
                                 !.fragments = IF accept THEN Append(@, Stripped(result))
                                               ELSE @,
                                 !.op = "resolve", !.len = 0, !.busy = FALSE,
                                 !.wasSpeaking = speaking,
                                 !.fired = accept, !.call = call.id,
                                 !.failed = TrimThrows(result),
                                 !.result = result ]
        /\ UNCHANGED << audioBuffer, sampleRateRef, levels, frameCount, speaking,
                        lastVoiceMs, chunkSeconds, handlerChunkSeconds, clock >>
        /\ UNCHANGED appVars

ResolveKeepBusy(call, result) ==
    LET cleaned == Cleaned(result)
        accept  == ~TrimThrows(result) /\ Accepts(cleaned, lastSnippet)
    IN  /\ call \in calls
        /\ calls' = calls \ {call}
        /\ transcript' = IF accept THEN AppendText(transcript, cleaned) ELSE transcript
        /\ lastSnippet' = IF accept THEN cleaned ELSE lastSnippet
        /\ speaking' = FALSE
        /\ lastVoiceMs' = null
        /\ transcribing' = transcribing
        /\ hist' = [ hist EXCEPT !.prevOk = Stripped(result),
                                 !.lastText = IF Stripped(result) # << >> /\ result.num = null
                                              THEN Stripped(result) ELSE @,
                                 !.fragments = IF accept THEN Append(@, Stripped(result))
                                               ELSE @,
                                 !.op = "resolve", !.len = 0, !.busy = FALSE,
                                 !.wasSpeaking = speaking,
                                 !.fired = accept, !.call = call.id,
                                 !.failed = TrimThrows(result),
                                 !.result = result ]
        /\ UNCHANGED << audioBuffer, sampleRateRef, levels, frameCount,
                        chunkSeconds, handlerChunkSeconds, clock >>
        /\ UNCHANGED appVars

(* flushTranscription after the await: the call resolved *)
Resolve(call, result) ==
    LET cleaned == Cleaned(result)
        accept  == ~TrimThrows(result) /\ Accepts(cleaned, lastSnippet)
    IN  /\ call \in calls
        /\ calls' = calls \ {call}
        /\ transcript' = IF accept THEN AppendText(transcript, cleaned) ELSE transcript
        /\ lastSnippet' = IF accept THEN cleaned ELSE lastSnippet
        /\ speaking' = FALSE
        /\ lastVoiceMs' = null
        /\ transcribing' = FALSE
        /\ hist' = [ hist EXCEPT !.prevOk = Stripped(result),
                                 !.lastText = IF Stripped(result) # << >> /\ result.num = null
                                              THEN Stripped(result) ELSE @,
                                 !.fragments = IF accept THEN Append(@, Stripped(result))
                                               ELSE @,
                                 !.op = "resolve", !.len = 0, !.busy = FALSE,
                                 !.wasSpeaking = speaking,
                                 !.fired = accept, !.call = call.id,
                                 !.failed = TrimThrows(result),
                                 !.result = result ]
        /\ UNCHANGED << audioBuffer, sampleRateRef, levels, frameCount,
                        chunkSeconds, handlerChunkSeconds, clock >>
        /\ UNCHANGED appVars

RejectRequeue(call) ==
    /\ call \in calls
    /\ calls' = calls \ {call}
    /\ audioBuffer' = Push(call.chunk, audioBuffer)
    /\ speaking' = FALSE
    /\ lastVoiceMs' = null
    /\ transcribing' = FALSE
    /\ hist' = [ hist EXCEPT !.prevOk = << >>, !.rejected = TRUE,
                             !.op = "reject", !.len = 0, !.busy = FALSE,
                             !.wasSpeaking = speaking,
                             !.fired = FALSE, !.call = call.id,
                             !.failed = TRUE,
                             !.result = NoResult ]
    /\ UNCHANGED << sampleRateRef, lastSnippet, transcript, levels,
                    frameCount, chunkSeconds, handlerChunkSeconds, clock >>
    /\ UNCHANGED appVars

RejectKeepBusy(call) ==
    /\ call \in calls
    /\ calls' = calls \ {call}
    /\ speaking' = FALSE
    /\ lastVoiceMs' = null
    /\ hist' = [ hist EXCEPT !.prevOk = << >>, !.rejected = TRUE,
                             !.op = "reject", !.len = 0, !.busy = FALSE,
                             !.wasSpeaking = speaking,
                             !.fired = FALSE, !.call = call.id,
                             !.failed = TRUE,
                             !.result = NoResult ]
    /\ UNCHANGED << audioBuffer, sampleRateRef, transcribing, lastSnippet, transcript,
                    levels, frameCount, chunkSeconds, handlerChunkSeconds, clock >>
    /\ UNCHANGED appVars

(* flushTranscription after the await: the call rejected *)
Reject(call) ==
    /\ call \in calls
    /\ calls' = calls \ {call}
    /\ speaking' = FALSE
    /\ lastVoiceMs' = null
    /\ transcribing' = FALSE
    /\ hist' = [ hist EXCEPT !.prevOk = << >>, !.rejected = TRUE,
                             !.op = "reject", !.len = 0, !.busy = FALSE,
                             !.wasSpeaking = speaking,
                             !.fired = FALSE, !.call = call.id,
                             !.failed = TRUE,
                             !.result = NoResult ]
    /\ UNCHANGED << audioBuffer, sampleRateRef, lastSnippet, transcript, levels,
                    frameCount, chunkSeconds, handlerChunkSeconds, clock >>
    /\ UNCHANGED appVars

(* resetAudio, with resetHotRefs; op is the name of the step in hist *)
ResetAudioState(op) ==
    /\ frameCount' = 0
    /\ transcript' = << >>
    /\ levels' = << >>
    /\ audioBuffer' = << >>
    /\ speaking' = FALSE
    /\ lastVoiceMs' = null
    /\ sampleRateRef' = null
    /\ transcribing' = FALSE
    /\ hist' = [ hist EXCEPT !.session = @ + 1, !.resets = @ + 1,
                             !.appended = 0, !.handed = 0, !.sinceFlush = << >>,
                             !.clean = (calls = {}), !.late = FALSE,
                             !.firstRate = null,
                             !.lastText = << >>, !.fragments = << >>,
                             !.op = op, !.len = 0, !.busy = FALSE,
                             !.wasSpeaking = speaking,
                             !.fired = FALSE, !.call = 0, !.failed = FALSE,
                             !.result = NoResult ]
    /\ UNCHANGED << lastSnippet, chunkSeconds, handlerChunkSeconds, calls, clock >>

(* resetAudio called on its own *)
ResetAudio ==
    /\ ResetAudioState("reset")
    /\ UNCHANGED appVars

(* get_settings / 'settings:updated' with a numeric chunk_seconds *)
SetChunkSeconds(v) ==
    /\ v # chunkSeconds
    /\ chunkSeconds' = v
    /\ hist' = [ hist EXCEPT !.settings = @ + 1,
                             !.op = "settings", !.len = 0, !.busy = FALSE,
                             !.wasSpeaking = speaking,
                             !.fired = FALSE, !.call = 0, !.failed = FALSE,
                             !.result = NoResult ]
    /\ UNCHANGED << audioBuffer, sampleRateRef, speaking, lastVoiceMs, transcribing,
                    lastSnippet, transcript, levels, frameCount,
                    handlerChunkSeconds, calls, clock >>
    /\ UNCHANGED appVars

CommitHandlerResubscribes ==
    /\ handlerChunkSeconds # chunkSeconds
    /\ handlerChunkSeconds' = chunkSeconds
    /\ subs' = { [sub EXCEPT !.active = FALSE,
                             !.registered = IF sub.unlistenFn THEN FALSE ELSE @] :
                    sub \in subs } \cup { Subscription(hist.mounts + 1) }
    /\ hist' = [ hist EXCEPT !.late = (@ \/ audioBuffer # << >>), !.mounts = @ + 1,
                             !.op = "commit", !.len = 0, !.busy = FALSE,
                             !.wasSpeaking = speaking,
                             !.fired = FALSE, !.call = 0, !.failed = FALSE,
                             !.result = NoResult ]
    /\ UNCHANGED << audioBuffer, sampleRateRef, speaking, lastVoiceMs, transcribing,
                    lastSnippet, transcript, levels, frameCount, chunkSeconds,
                    calls, clock >>
    /\ UNCHANGED << isRecording, appState, lastSessionId, appCalls, savedSessions,
                    timers, summaryCall >>

(* the effect that stores the re-created handleAudioFrame in handlerRef *)
CommitHandler ==
    /\ handlerChunkSeconds # chunkSeconds
    /\ handlerChunkSeconds' = chunkSeconds
    /\ hist' = [ hist EXCEPT !.late = (@ \/ audioBuffer # << >>),
                             !.op = "commit", !.len = 0, !.busy = FALSE,
                             !.wasSpeaking = speaking,
                             !.fired = FALSE, !.call = 0, !.failed = FALSE,
                             !.result = NoResult ]
    /\ UNCHANGED << audioBuffer, sampleRateRef, speaking, lastVoiceMs, transcribing,
                    lastSnippet, transcript, levels, frameCount, chunkSeconds,
                    calls, clock >>
    /\ UNCHANGED appVars

-----------------------------------------------------------------------------
(* App: the handlers that start and stop a recording *)

AppStep(op) ==
    [ hist EXCEPT !.op = op, !.len = 0, !.busy = FALSE, !.wasSpeaking = speaking,
                  !.fired = FALSE, !.call = 0, !.failed = FALSE, !.result = NoResult ]

AppCall(kind, id, text) == [kind |-> kind, id |-> id, transcript |-> text]

(* the mount effect of useAudio: invoke('is_recording') settles *)
RecordingStatusSettled(call, isActive, ok) ==
    /\ call \in appCalls
    /\ call.kind = "is_recording"
    /\ appCalls' = appCalls \ {call}
    /\ isRecording' = IF ok THEN isActive ELSE isRecording
    /\ hist' = AppStep("mounted")
    /\ UNCHANGED << audioVars, subs, summaryCall, appState, lastSessionId, savedSessions, timers >>

(* the buttons that call handleStartRecording are rendered *)
StartEnabled == appState # "post-call" /\ (~isRecording \/ appState = "idle")

(* handleStartRecording up to its await *)
HandleStartRecording ==
    /\ StartEnabled
    /\ isRecording' = TRUE
    /\ appState' = "recording"
    /\ ResetAudioState("start")
    /\ appCalls' = appCalls \cup { AppCall("start_recording", 0, << >>) }
    /\ UNCHANGED << lastSessionId, savedSessions, timers, subs, summaryCall >>

(* handleStartRecording after the await: start_recording settled *)
StartRecordingSettled(call, ok) ==
    /\ call \in appCalls
    /\ call.kind = "start_recording"
    /\ appCalls' = appCalls \ {call}
    /\ isRecording' = IF ok THEN isRecording ELSE FALSE
    /\ appState' = IF ok THEN appState ELSE "idle"
    /\ hist' = AppStep("started")
    /\ UNCHANGED << audioVars, subs, summaryCall, lastSessionId, savedSessions, timers >>

(* the buttons that call handleStopRecording are rendered *)
StopEnabled == appState # "post-call" /\ isRecording

(* handleStopRecording up to its first await; the handler reads the        *)
(* transcript of the render in which it was created                        *)
HandleStopRecording ==
    /\ StopEnabled
    /\ appCalls' = appCalls \cup { AppCall("stop_recording", 0, transcript) }
    /\ hist' = [ AppStep("stop") EXCEPT !.stops = @ + 1 ]
    /\ UNCHANGED << audioVars, subs, summaryCall, isRecording, appState, lastSessionId,
                    savedSessions, timers >>

(* handleStopRecording after stop_recording settled, up to save_session *)
StopRecordingSettled(call, ok) ==
    LET text == Trim(call.transcript)
        id   == Len(savedSessions) + 1
    IN  /\ call \in appCalls
        /\ call.kind = "stop_recording"
        /\ isRecording' = IF ok THEN FALSE ELSE isRecording
        /\ appState' = IF ok THEN "processing" ELSE appState
        /\ IF ok /\ text # << >>
           THEN /\ savedSessions' = Append(savedSessions, text)
                /\ appCalls' = (appCalls \ {call}) \cup { AppCall("save_session", id, text) }
                /\ timers' = timers
           ELSE /\ savedSessions' = savedSessions
                /\ appCalls' = appCalls \ {call}
                /\ timers' = IF ok THEN timers + 1 ELSE timers
        /\ hist' = AppStep("stopped")
        /\ UNCHANGED << audioVars, subs, summaryCall, lastSessionId >>

(* handleStopRecording after save_session settled: the post-call timer *)
SaveSessionSettled(call, ok) ==
    /\ call \in appCalls
    /\ call.kind = "save_session"
    /\ appCalls' = appCalls \ {call}
    /\ lastSessionId' = IF ok THEN call.id ELSE lastSessionId
    /\ timers' = timers + 1
    /\ hist' = AppStep("saved")
    /\ UNCHANGED << audioVars, subs, summaryCall, isRecording, appState, savedSessions >>

(* the callback of setTimeout(..., 2000) *)
TimerFired ==
    /\ timers > 0
    /\ timers' = timers - 1
    /\ appState' = "post-call"
    /\ hist' = AppStep("timer")
    /\ UNCHANGED << audioVars, subs, summaryCall, isRecording, lastSessionId, appCalls, savedSessions >>

(* onClose of PostCallScreen *)
ClosePostCall ==
    /\ appState = "post-call"
    /\ appState' = "idle"
    /\ hist' = AppStep("close")
    /\ UNCHANGED << audioVars, subs, summaryCall, isRecording, lastSessionId, appCalls, savedSessions,
                    timers >>

-----------------------------------------------------------------------------
(* generateSummary of ClaudeProvider and OpenAIProvider *)

RECURSIVE Pow2(_)
Pow2(n) == IF n = 0 THEN 1 ELSE 2 * Pow2(n - 1)

(* x || 0 *)
OrZero(x) == IF x = null THEN 0 ELSE x

(* the text of the response parses as a summary *)
AttemptSucceeds(response) ==
    response.kind = "resolved" /\ response.content = "summary"

Tokens(provider, usage) ==
    IF provider = "claude"
    THEN OrZero(usage.input) + OrZero(usage.output)
    ELSE OrZero(usage.total)

(* attempt <= retries *)
ContinueLoop(attempt, retries) == attempt <= retries

LastAttemptNever(attempt, retries) == FALSE

(* attempt === retries *)
LastAttempt(attempt, retries) == attempt = retries

(* 1000 * Math.pow(2, attempt) *)
Backoff(attempt) == 1000 * Pow2(attempt)

(* generateSummary up to the first await *)
GenerateSummary(provider, retries, startTime) ==
    /\ summaryCall.pc = "idle"
    /\ summaryCall' =
          IF ContinueLoop(0, retries)
          THEN [ summaryCall EXCEPT !.pc = "calling", !.provider = provider,
                                    !.retries = retries, !.attempt = 0,
                                    !.startTime = startTime, !.now = startTime,
                                    !.attempts = 1 ]
          ELSE [ summaryCall EXCEPT !.pc = "thrown", !.provider = provider,
                                    !.retries = retries, !.startTime = startTime,
                                    !.now = startTime, !.error = "exhausted" ]
    /\ UNCHANGED << audioVars, isRecording, appState, lastSessionId, appCalls,
                    savedSessions, timers, subs, hist >>

(* the API call of the attempt settled: the rest of the try block, or the  *)
(* catch block up to its await                                             *)
AttemptSettled(response, duration) ==
    LET g   == summaryCall
        end == g.now + duration
    IN  /\ g.pc = "calling"
        /\ summaryCall' =
              IF AttemptSucceeds(response)
              THEN [ g EXCEPT !.pc = "returned", !.now = end,
                              !.tokens = Tokens(g.provider, response.usage),
                              !.latencyMs = end - g.startTime ]
              ELSE IF LastAttempt(g.attempt, g.retries)
                   THEN [ g EXCEPT !.pc = "thrown", !.now = end,
                                   !.failures = @ + 1, !.error = "failed" ]
                   ELSE [ g EXCEPT !.pc = "backoff", !.now = end,
                                   !.failures = @ + 1,
                                   !.delay = Backoff(g.attempt) ]
        /\ UNCHANGED << audioVars, isRecording, appState, lastSessionId, appCalls,
                        savedSessions, timers, subs, hist >>

(* the backoff timer fired: attempt++ and the loop test *)
BackoffElapsed ==
    LET g    == summaryCall
        next == g.attempt + 1
    IN  /\ g.pc = "backoff"
        /\ summaryCall' =
              IF ContinueLoop(next, g.retries)
              THEN [ g EXCEPT !.pc = "calling", !.attempt = next,
                              !.now = @ + g.delay, !.waited = @ + g.delay,
                              !.attempts = @ + 1 ]
              ELSE [ g EXCEPT !.pc = "thrown", !.attempt = next,
                              !.now = @ + g.delay, !.waited = @ + g.delay,
                              !.error = "exhausted" ]
        /\ UNCHANGED << audioVars, isRecording, appState, lastSessionId, appCalls,
                        savedSessions, timers, subs, hist >>

-----------------------------------------------------------------------------
(* The 'audio:frame' subscription *)

LiveSubs == { sub \in subs : sub.registered /\ sub.active }

(* listen(...).then(fn => { unlistenFn = fn; }) *)
ListenResolved(sub) ==
    /\ sub \in subs
    /\ ~sub.unlistenFn
    /\ subs' = (subs \ {sub}) \cup { [sub EXCEPT !.unlistenFn = TRUE, !.registered = TRUE] }
    /\ hist' = AppStep("listening")
    /\ UNCHANGED << audioVars, summaryCall, isRecording, appState, lastSessionId, appCalls,
                    savedSessions, timers >>

(* the cleanup of the effect: active = false; if (unlistenFn) unlistenFn() *)
Cleanup(sub) ==
    /\ sub \in subs
    /\ sub.active
    /\ subs' = (subs \ {sub}) \cup
                 { [sub EXCEPT !.active = FALSE,
                               !.registered = IF sub.unlistenFn THEN FALSE ELSE @] }
    /\ hist' = AppStep("cleanup")
    /\ UNCHANGED << audioVars, summaryCall, isRecording, appState, lastSessionId, appCalls,
                    savedSessions, timers >>

(* the effect runs again after its cleanup (state and refs are kept) *)
Resubscribe ==
    /\ \A sub \in subs : ~sub.active
    /\ subs' = subs \cup { Subscription(hist.mounts + 1) }
    /\ hist' = [ AppStep("subscribe") EXCEPT !.mounts = @ + 1 ]
    /\ UNCHANGED << audioVars, summaryCall, isRecording, appState, lastSessionId, appCalls,
                    savedSessions, timers >>

(* an 'audio:frame' event: every registered listener runs *)
DeliverFrame(frame) ==
    IF LiveSubs # {}
    THEN HandleAudioFrame(frame)
    ELSE /\ clock = null \/ frame.timestamp > clock
         /\ clock' = frame.timestamp
         /\ hist' = AppStep("dropped")
         /\ UNCHANGED << audioBuffer, sampleRateRef, speaking, lastVoiceMs, transcribing,
                         lastSnippet, transcript, levels, frameCount, chunkSeconds,
                         handlerChunkSeconds, calls >>
         /\ UNCHANGED appVars

NextOver(F, R, C, b) ==
    \/ \E frame \in F :
          /\ hist.frames < b.frames
          /\ hist.dispatches < b.calls
          /\ HandleAudioFrame(frame)
    \/ \E call \in calls, result \in R : Resolve(call, result)
    \/ \E call \in calls : Reject(call)
    \/ hist.resets < b.resets /\ ResetAudio
    \/ \E v \in C : hist.settings < b.settings /\ SetChunkSeconds(v)
    \/ CommitHandler

(* The pipeline under arbitrary frames, completions, resets and settings *)
Next ==
    NextOver(FramesOf(FrameDatas, Times, SampleRates), ResultsOf(Texts),
             ChunkSecondsValues,
             [frames |-> MaxFrames, calls |-> MaxCalls,
              resets |-> MaxResets, settings |-> MaxSettings])

Spec == Init /\ [][Next]_vars

(* A stream of 500 ms frames at 16 kHz *)
NextStream ==
    NextOver(FramesOf(StreamDatas, StreamTimes, StreamRates), ResultsOf(StreamTexts),
             ChunkSecondsValues,
             [frames |-> MaxStreamFrames, calls |-> MaxCalls,
              resets |-> MaxResets, settings |-> MaxSettings])

SpecStream == Init /\ [][NextStream]_vars

(* Every frame fills a chunk; the transcription results vary *)
NextText ==
    NextOver(FramesOf(TextDatas, TextTimes, TextRates),
             ResultsOf(TextTexts) \cup NumberResults(TextNumbers) \cup {NoResult},
             ChunkSecondsValues,
             [frames |-> MaxTextCalls, calls |-> MaxTextCalls,
              resets |-> MaxResets, settings |-> MaxSettings])

SpecText == Init /\ [][NextText]_vars

(* The pipeline when every call that was started is settled in the end *)
Settle == \E call \in calls : Reject(call) \/ \E result \in ResultsOf(Texts) : Resolve(call, result)

(* Silent frames under every configured chunk length, in and out of range *)
NextClamp ==
    NextOver(FramesOf(ClampDatas, ClampTimes, ClampRates), ResultsOf(Texts),
             ClampValues,
             [frames |-> MaxFrames, calls |-> MaxCalls,
              resets |-> MaxResets, settings |-> MaxSettings])

SpecClamp == Init /\ [][NextClamp]_vars

(* Frames of one session that carry different sample rates *)
NextRate ==
    NextOver(RateFrames, ResultsOf(Texts), ChunkSecondsValues,
             [frames |-> MaxFrames, calls |-> MaxCalls,
              resets |-> MaxResets, settings |-> MaxSettings])

SpecRate == Init /\ [][NextRate]_vars

(* A long run of short frames: the level meter beyond its capacity *)
NextLevels ==
    \/ \E frame \in LevelFrames :
          /\ hist.frames < MaxLevelFrames
          /\ frame.timestamp = hist.frames + 1
          /\ HandleAudioFrame(frame)
    \/ hist.resets < MaxResets /\ ResetAudio

SpecLevels == Init /\ [][NextLevels]_vars

(* The subscription: the effect, its cleanup and the events *)
NextSub ==
    \/ \E frame \in FramesOf(SubDatas, SubTimes, SubRates) :
          /\ hist.frames < MaxFrames
          /\ hist.dispatches < MaxCalls
          /\ DeliverFrame(frame)
    \/ \E call \in calls, result \in ResultsOf(Texts) : Resolve(call, result)
    \/ \E call \in calls : Reject(call)
    \/ \E v \in ChunkSecondsValues : hist.settings < MaxSettings /\ SetChunkSeconds(v)
    \/ CommitHandler
    \/ \E sub \in subs : ListenResolved(sub)
    \/ \E sub \in subs : Cleanup(sub)
    \/ hist.mounts < MaxMounts /\ Resubscribe

SpecSub == Init /\ [][NextSub]_vars

(* The application: recordings are started and stopped from the window *)
NextApp ==
    \/ \E frame \in FramesOf(AppDatas, AppTimes, AppRates) :
          /\ hist.frames < MaxAppFrames
          /\ hist.dispatches < MaxCalls
          /\ HandleAudioFrame(frame)
    \/ \E call \in calls, result \in ResultsOf(AppTexts) : Resolve(call, result)
    \/ \E call \in calls : Reject(call)
    \/ \E call \in appCalls, isActive \in BOOLEAN, ok \in BOOLEAN :
          RecordingStatusSettled(call, isActive, ok)
    \/ hist.resets < MaxResets /\ HandleStartRecording
    \/ \E call \in appCalls, ok \in BOOLEAN : StartRecordingSettled(call, ok)
    \/ hist.stops < MaxStops /\ HandleStopRecording
    \/ \E call \in appCalls, ok \in BOOLEAN : StopRecordingSettled(call, ok)
    \/ \E call \in appCalls, ok \in BOOLEAN : SaveSessionSettled(call, ok)
    \/ TimerFired
    \/ ClosePostCall

SpecApp == Init /\ [][NextApp]_vars

(* One generateSummary call, every attempt settling and every backoff     *)
(* timer firing                                                            *)
SettleAttempt == \E response \in Responses, duration \in ApiDurations :
                    AttemptSettled(response, duration)

NextRetry ==
    \/ \E provider \in Providers, retries \in RetryValues, startTime \in StartTimes :
          GenerateSummary(provider, retries, startTime)
    \/ SettleAttempt
    \/ BackoffElapsed

SpecRetry ==
    Init /\ [][NextRetry]_vars /\ WF_vars(SettleAttempt) /\ WF_vars(BackoffElapsed)

(* Frames that keep arriving, every 500 ms: a further frame follows every  *)
(* settlement of a call, so the last frame of the run waits for the calls  *)
FlowFrameArrives ==
    \E data \in FlowDatas, rate \in FlowRates :
        /\ hist.frames < MaxFlowFrames
        /\ hist.frames = MaxFlowFrames - 1 => calls = {}
        /\ HandleAudioFrame([data |-> data, timestamp |-> FlowInterval * hist.frames,
                             sample_rate |-> rate])

NextFlow ==
    \/ FlowFrameArrives
    \/ Settle
    \/ hist.resets < MaxResets /\ ResetAudio

SpecFlow == Init /\ [][NextFlow]_vars /\ WF_vars(FlowFrameArrives) /\ WF_vars(Settle)

NextLive ==
    NextOver(FramesOf(LiveDatas, LiveTimes, LiveRates), ResultsOf(Texts),
             ChunkSecondsValues,
             [frames |-> MaxFrames, calls |-> MaxCalls,
              resets |-> MaxResets, settings |-> MaxSettings])

SpecLive == Init /\ [][NextLive]_vars /\ WF_vars(Settle)

-----------------------------------------------------------------------------
(* Steps, as seen from a pair of states *)
FrameDone == hist.op = "frame"
ResolveStep == hist'.op = "resolve" /\ calls' # calls
RejectStep == hist'.op = "reject" /\ calls' # calls
CompletionStep == ResolveStep \/ RejectStep

SessionCalls == { c \in calls : c.session = hist.session }

(* C1: at most one transcription call started for the current session is   *)
(* outstanding, also when the recording was restarted while a call of the  *)
(* previous recording was in flight.                                       *)
C1_AtMostOneOutstanding == Cardinality(SessionCalls) <= 1

(* C2: sample conservation inside one session: the samples appended to     *)
(* pendingSamples so far are the samples handed to transcription calls so  *)
(* far plus the samples still pending.                                     *)
C2_SampleConservation == hist.appended = hist.handed + Length(audioBuffer)

C2_Witness ==
    /\ hist.op = "reject"
    /\ hist.handed > 0
    /\ Length(audioBuffer) > 0
    /\ hist.appended = 28000

(* C3: the samples of each transcription call are the concatenation, in    *)
(* arrival order, of the data of every frame received since the previous   *)
(* flush or the session start; a flush takes the whole buffer and leaves   *)
(* pendingSamples empty, and later frames go to the fresh buffer.          *)
C3_ChunkIsWholeBuffer ==
    /\ audioBuffer = Canonical(Flat(hist.sinceFlush))
    /\ \A c \in calls : c.chunk = Canonical(Flat(c.expect))
    /\ (FrameDone /\ hist.fired) => audioBuffer = << >>

C3_Witness ==
    \E c \in calls :
        /\ c.expect = << Loud8, Silent20 >>
        /\ c.chunk = << [v |-> 3, c |-> 8000], [v |-> 0, c |-> 20000] >>
        /\ audioBuffer = Loud8

(* C4: on every frame a dispatch is started iff no call is outstanding and *)
(* (pendingSamples.length >= floor(sr*cs), or speaking and the time from   *)
(* lastVoiceAt to the frame timestamp is >= 450 ms and                     *)
(* pendingSamples.length >= floor(sr*min(1,cs))), for every timestamp,     *)
(* 0 included.                                                             *)
C4_FlushPolicy ==
    FrameDone =>
        LET cs == Max(10, Min(60, handlerChunkSeconds))
            sr == sampleRateRef
        IN  hist.fired <=>
              /\ ~hist.busy
              /\ \/ hist.len >= (sr * cs) \div 10
                 \/ /\ speaking
                    /\ lastVoiceMs # null
                    /\ clock - lastVoiceMs >= 450
                    /\ hist.len >= (sr * Min(10, cs)) \div 10

(* C5: after a frame at t0 entered Speaking and only frames below 0.02     *)
(* followed, with the minimum-utterance floor met and the duration         *)
(* threshold not reached, a dispatch is started on a frame iff its         *)
(* timestamp - t0 is >= 450 ms.                                            *)
C5_PauseBoundary ==
    LET cs == Max(10, Min(60, handlerChunkSeconds))
        sr == sampleRateRef
    IN  ( /\ FrameDone
          /\ speaking
          /\ lastVoiceMs # null
          /\ LastLevel < vadOff
          /\ ~hist.busy
          /\ hist.len >= (sr * Min(10, cs)) \div 10
          /\ hist.len < (sr * cs) \div 10 )
        => (hist.fired <=> clock - lastVoiceMs >= 450)

(* Every frame of the session so far stayed below the on-threshold *)
AllQuiet == \A i \in 1..Len(levels) : levels[i] < vadOn

(* C6: while every frame of the session has loudness below 0.03, speaking  *)
(* stays false, every dispatch is duration-triggered, and the first        *)
(* dispatch happens exactly on the frame at which pendingSamples reaches   *)
(* floor(sr*cs) samples (32000 for sr = 16000, chunkSeconds = 2).          *)
C6_SilenceStream ==
    (FrameDone /\ AllQuiet) =>
        LET needed == (sampleRateRef * Max(10, Min(60, handlerChunkSeconds))) \div 10
        IN  /\ ~speaking
            /\ hist.fired => hist.len >= needed
            /\ hist.appended = hist.len => (hist.fired <=> hist.len >= needed)

C6_Witness ==
    /\ FrameDone
    /\ AllQuiet
    /\ sampleRateRef = 16000
    /\ handlerChunkSeconds = 20
    /\ frameCount = 4
    /\ hist.fired
    /\ hist.len = 32000
    /\ \E c \in calls : c.id = hist.call /\ Length(c.chunk) = 32000

(* The recording started with no call of an earlier recording in flight,  *)
(* runs at 16 kHz with chunkSeconds never changed from 2.5, and every     *)
(* frame so far had 8000 samples below the on-threshold.                   *)
C7_Scenario ==
    /\ sampleRateRef = 16000
    /\ hist.settings = 0
    /\ hist.clean
    /\ AllQuiet
    /\ hist.appended = 8000 * frameCount

(* C7: with sr = 16000, chunkSeconds = 2.5 and frames of 8000 samples, no  *)
(* flush is dispatched during the first four frames; the fifth frame       *)
(* dispatches the 40000 samples; the sixth frame is evaluated on a buffer  *)
(* that was reset, and transcribing is true while the call is outstanding. *)
C7_EndToEnd ==
    C7_Scenario =>
        /\ frameCount <= 4 => hist.handed = 0 /\ SessionCalls = {}
        /\ (FrameDone /\ frameCount = 5) =>
              /\ hist.fired
              /\ audioBuffer = << >>
              /\ \E c \in SessionCalls :
                    c.id = hist.call /\ Length(c.chunk) = 40000 /\ c.sr = 16000
        /\ (FrameDone /\ frameCount = 6) =>
              /\ hist.len = 8000
              /\ hist.busy => ~hist.fired
        /\ SessionCalls # {} => transcribing

C7_Witness ==
    /\ C7_Scenario
    /\ FrameDone
    /\ frameCount = 6
    /\ Length(audioBuffer) = 8000
    /\ transcribing
    /\ \E c \in SessionCalls : Length(c.chunk) = 40000

(* C8: a call that resolves with trimmed text r changes transcript and     *)
(* lastAcceptedText iff r is non-empty and differs from lastAcceptedText   *)
(* (r is appended after one space when transcript is non-empty, and        *)
(* lastAcceptedText becomes r); the second of two consecutive successful   *)
(* calls with the same trimmed text leaves the transcript as it is.        *)
C8_DedupOnSuccess ==
    [][ ResolveStep =>
          LET r      == Stripped(hist'.result)
              accept == r # << >> /\ r # lastSnippet
          IN  /\ (transcript' # transcript) <=> accept
              /\ (lastSnippet' # lastSnippet) <=> accept
              /\ accept =>
                    /\ lastSnippet' = r
                    /\ transcript' =
                         IF transcript = << >> THEN r ELSE transcript \o << " " >> \o r
              /\ (r # << >> /\ r = hist.prevOk) => transcript' = transcript ]_vars

C8_Witness ==
    /\ hist.op = "resolve"
    /\ hist.result.text = << " ", "a", " " >>
    /\ ~hist.fired
    /\ transcript = << "a" >>
    /\ lastSnippet = << "a" >>

(* C9: a call that rejects leaves transcript and lastAcceptedText          *)
(* unchanged, does not put its samples back into pendingSamples and        *)
(* starts no new call.                                                     *)
C9_RejectLeavesState ==
    [][ RejectStep =>
          /\ transcript' = transcript
          /\ lastSnippet' = lastSnippet
          /\ audioBuffer' = audioBuffer
          /\ calls' \subseteq calls
          /\ hist'.dispatches = hist.dispatches ]_vars

C9_Witness ==
    /\ hist.op = "reject"
    /\ transcript = << "a" >>
    /\ audioBuffer = Silent20
    /\ calls = {}

(* C10: the completion of a call, resolved or rejected, ends with          *)
(* speaking false, lastVoiceAt unset and transcribing false, also when     *)
(* frames received during the call had set them; pendingSamples and        *)
(* sampleRate stay as they were.                                           *)
C10_CompletionResetsVad ==
    [][ CompletionStep =>
          /\ speaking' = FALSE
          /\ lastVoiceMs' = null
          /\ transcribing' = FALSE
          /\ audioBuffer' = audioBuffer
          /\ sampleRateRef' = sampleRateRef ]_vars

C10_Witness ==
    /\ hist.op \in {"resolve", "reject"}
    /\ hist.wasSpeaking
    /\ ~speaking
    /\ lastVoiceMs = null
    /\ ~transcribing
    /\ audioBuffer = Loud8

(* C11: a rejected call does not halt the pipeline.  From a rejection to   *)
(* the next dispatch every frame is still appended to pendingSamples, its  *)
(* level is recorded and the VAD is evaluated, and a frame on which the    *)
(* flush policy holds (duration threshold reached, or a pause of 450 ms    *)
(* with the minimum utterance) starts a new call; every call that is       *)
(* started and settles is followed by transcribing = false.                *)
C11_FailureContained ==
    /\ [][ (hist.rejected /\ hist'.op = "frame") =>
             LET cs     == Max(10, Min(60, handlerChunkSeconds))
                 sr     == sampleRateRef'
                 added  == hist'.appended - hist.appended
                 policy == \/ hist'.len >= (sr * cs) \div 10
                           \/ /\ speaking'
                              /\ lastVoiceMs' # null
                              /\ clock' - lastVoiceMs' >= 450
                              /\ hist'.len >= (sr * Min(10, cs)) \div 10
             IN  /\ hist'.len = Length(audioBuffer) + added
                 /\ Len(levels') = Min(60, Len(levels) + 1)
                 /\ levels'[Len(levels')] >= 300 => speaking'
                 /\ policy => /\ hist'.fired
                              /\ \E c \in calls' \ calls : Length(c.chunk) = hist'.len ]_vars
    /\ \A k \in 1..MaxCalls :
          (\E c \in calls : c.id = k)
             ~> (hist.call = k /\ hist.op \in {"resolve", "reject"} /\ ~transcribing)

(* The first call was rejected (nothing was appended and there was no      *)
(* restart), a loud frame and a silent frame followed, and the silent      *)
(* frame started the second call with both of them on the pause rule.      *)
C11_Witness ==
    /\ FrameDone
    /\ hist.fired
    /\ hist.call = 2
    /\ hist.resets = 0
    /\ transcript = << >>
    /\ speaking
    /\ transcribing
    /\ handlerChunkSeconds = 25
    /\ \E c \in calls : c.id = 2 /\ c.expect = << Loud8, Silent8 >>

(* C12: a call that completes after the recording it was started for was  *)
(* reset does not change transcript or lastAcceptedText, and does not      *)
(* change speaking, lastVoiceAt or transcribing of the session that was    *)
(* started in the meantime.                                                *)
C12_LateCompletionDiscarded ==
    [][ \A c \in calls \ calls' :
          (CompletionStep /\ c.session < hist.session) =>
              /\ transcript' = transcript
              /\ lastSnippet' = lastSnippet
              /\ speaking' = speaking
              /\ lastVoiceMs' = lastVoiceMs
              /\ transcribing' = transcribing ]_vars

(* C13: in every reachable state transcribing is true iff a transcription  *)
(* call started by the pipeline is outstanding, whatever the interleaving  *)
(* of frames, completions and session resets.                              *)
C13_TranscribingIffOutstanding == transcribing <=> (calls # {})

(* C14: right after resetAudio every session field is empty:               *)
(* pendingSamples, sampleRate, speaking, lastVoiceAt, transcribing,        *)
(* levels, transcript and lastAcceptedText, so that the first result of a  *)
(* recording is accepted whatever the previous recording accepted.         *)
C14_ResetLeavesEmpty ==
    hist.op = "reset" =>
        /\ audioBuffer = << >>
        /\ sampleRateRef = null
        /\ speaking = FALSE
        /\ lastVoiceMs = null
        /\ transcribing = FALSE
        /\ levels = << >>
        /\ transcript = << >>
        /\ lastSnippet = << >>

(* C15: once handleStopRecording has run (appState is processing or        *)
(* post-call), an 'audio:frame' event that is still delivered changes none *)
(* of pendingSamples, sampleRate, speaking, lastVoiceAt and levels and     *)
(* starts no transcription call.                                           *)
C15_NoFrameAfterStop ==
    [][ (appState \in {"processing", "post-call"} /\ hist'.op = "frame") =>
          /\ UNCHANGED << audioBuffer, sampleRateRef, speaking, lastVoiceMs, levels >>
          /\ calls' = calls ]_vars

(* The value is null, not a string, or a string of white space only *)
Malformed(result) ==
    \/ result.isNull
    \/ result.num # null
    \/ \A i \in 1..Len(result.text) : result.text[i] = " "

(* C16: a call that resolves with an empty, whitespace-only, null or       *)
(* non-string value leaves transcript and lastAcceptedText unchanged and   *)
(* is not handled as a failure: the catch path is not taken and no failed  *)
(* transcription is reported.                                              *)
C16_MalformedIsNoInformation ==
    [][ (ResolveStep /\ Malformed(hist'.result)) =>
          /\ transcript' = transcript
          /\ lastSnippet' = lastSnippet
          /\ ~hist'.failed ]_vars

(* C17: whatever value v the handler has for chunkSeconds (-5, 0, 1, 3.5,  *)
(* 6 and 100 are configured), the flush policy uses cs = max(1, min(6, v)) *)
(* and the duration threshold floor(sr * cs): a frame processed while not  *)
(* speaking starts a call iff no call is marked outstanding and            *)
(* pendingSamples has reached that threshold.                              *)
C17_ClampLaw ==
    [][ (hist'.op = "frame" /\ ~speaking') =>
          LET v  == handlerChunkSeconds
              cs == IF v < 10 THEN 10 ELSE IF v > 60 THEN 60 ELSE v
          IN  hist'.fired <=>
                (~transcribing /\ hist'.len >= (sampleRateRef' * cs) \div 10) ]_vars

C17_Witness ==
    /\ FrameDone
    /\ handlerChunkSeconds = 1000
    /\ hist.fired
    /\ hist.len = 60000
    /\ \E c \in calls : c.id = hist.call /\ Length(c.chunk) = 60000

(* C18: chunkSeconds is read anew on every evaluation: a frame processed   *)
(* after the setting changed is evaluated with the new value, so a frame   *)
(* processed while not speaking and with no call outstanding starts a call *)
(* iff pendingSamples has reached floor(sr * cs) for the current           *)
(* chunkSeconds.                                                           *)
C18_ReadsCurrentSetting ==
    (FrameDone /\ ~speaking /\ ~hist.busy) =>
        LET cs == Max(10, Min(60, chunkSeconds))
        IN  hist.fired <=> hist.len >= (sampleRateRef * cs) \div 10

(* C19: a frame sets speaking to true iff it was true or the frame's       *)
(* normalized loudness is >= 0.03, so no frame sets it back to false       *)
(* whatever its loudness; speaking goes from true to false only when a     *)
(* transcription call completes or the session is reset.                   *)
C19_VadHysteresis ==
    [][ /\ hist'.op = "frame" =>
              (speaking' <=> (speaking \/ levels'[Len(levels')] >= 300))
        /\ (speaking /\ ~speaking') =>
              hist'.op \in {"resolve", "reject", "reset", "start"} ]_vars

C19_Witness ==
    /\ FrameDone
    /\ hist.wasSpeaking
    /\ speaking
    /\ LastLevel = 0
    /\ ~hist.fired

(* C20: on a frame after which speaking is true, lastVoiceAt becomes the   *)
(* frame timestamp if the loudness is >= 0.02, keeps its value if the      *)
(* loudness is below 0.02 and it was set, and becomes the timestamp if it  *)
(* was unset; on a frame that leaves speaking false (loudness < 0.03)      *)
(* lastVoiceAt is unchanged.                                               *)
C20_LastVoiceRule ==
    [][ hist'.op = "frame" =>
          LET loudness == levels'[Len(levels')]
          IN  IF speaking'
              THEN IF loudness >= 200 THEN lastVoiceMs' = clock'
                   ELSE IF lastVoiceMs # null THEN lastVoiceMs' = lastVoiceMs
                   ELSE lastVoiceMs' = clock'
              ELSE loudness < 300 /\ lastVoiceMs' = lastVoiceMs ]_vars

C20_Witness ==
    /\ FrameDone
    /\ hist.wasSpeaking
    /\ speaking
    /\ LastLevel < 200
    /\ lastVoiceMs # null
    /\ lastVoiceMs < clock

(* C21: every dispatched chunk is shorter than one chunk length plus the   *)
(* frame that triggered it, floor(sr*cs) + that frame's sample count, for  *)
(* every pattern of frames and completions, frames that arrive while a     *)
(* call is outstanding included.                                           *)
C21_LatencyBound ==
    [][ (hist'.op = "frame" /\ hist'.fired) =>
          LET cs == Max(10, Min(60, handlerChunkSeconds))
          IN  hist'.len < (sampleRateRef' * cs) \div 10
                            + (hist'.appended - hist.appended) ]_vars

(* C21 as amended: the bound holds for a chunk all of whose frames were    *)
(* processed with transcribing false and under one value of chunkSeconds   *)
(* (hist.late is false).                                                   *)
C21_LatencyBoundNoBacklog ==
    [][ (hist'.op = "frame" /\ hist'.fired /\ ~hist.late) =>
          LET cs == Max(10, Min(60, handlerChunkSeconds))
          IN  hist'.len < (sampleRateRef' * cs) \div 10
                            + (hist'.appended - hist.appended) ]_vars

C21_Witness ==
    /\ FrameDone
    /\ hist.fired
    /\ hist.call = 1
    /\ hist.resets = 0
    /\ hist.settings = 0
    /\ sampleRateRef = 8000
    /\ frameCount = 2
    /\ hist.len = 28000

(* C22: within one session sampleRate is the sample_rate of the session's  *)
(* first frame and never changes, whatever rate later frames carry; the    *)
(* rate passed to every call of the session and the duration threshold     *)
(* use that value.                                                         *)
C22_SampleRateLatch ==
    [][ /\ hist'.op = "frame" =>
              /\ sampleRateRef' = hist'.firstRate
              /\ sampleRateRef # null => sampleRateRef' = sampleRateRef
              /\ \A c \in calls' \ calls : c.sr = hist'.firstRate
              /\ ~speaking' =>
                    (hist'.fired <=>
                       /\ ~transcribing
                       /\ hist'.len >= (hist'.firstRate
                                          * Max(10, Min(60, handlerChunkSeconds))) \div 10)
        /\ (sampleRateRef # null /\ sampleRateRef' # sampleRateRef) =>
              hist'.op \in {"reset", "start"} ]_vars

(* In SpecRate a loud frame carries 8000 and a silent one 16000: the call  *)
(* was started at 16000 with a chunk that holds a frame that carried 8000. *)
C22_Witness ==
    /\ FrameDone
    /\ hist.firstRate = 16000
    /\ sampleRateRef = 16000
    /\ hist.fired
    /\ hist.len = 48000
    /\ \E c \in calls :
          c.id = hist.call /\ c.sr = 16000 /\ c.expect = << Silent20, Loud8, Silent20 >>

(* C23: after n frames of a session levels holds the normalized loudness  *)
(* of the last min(n, 60) frames in arrival order (in SpecLevels the frame *)
(* with timestamp t has loudness (t mod 3) / 100), so its length never     *)
(* exceeds 60 and beyond 60 each frame evicts the oldest entry.            *)
C23_LevelsWindow ==
    /\ Len(levels) = (IF frameCount < 60 THEN frameCount ELSE 60)
    /\ \A i \in 1..Len(levels) :
          levels[i] = ((clock - Len(levels) + i) % 3) * 100

C23_Witness ==
    /\ FrameDone
    /\ frameCount = 62
    /\ clock = 62
    /\ Len(levels) = 60
    /\ levels[1] = 0
    /\ levels[59] = 100
    /\ levels[60] = 200

(* C27: once the cleanup of a run of the subscription effect has run, no   *)
(* frame is passed to the handler by its listener and the listener is no   *)
(* longer registered, whether the cleanup ran after or before the listen() *)
(* promise resolved.                                                       *)
C27_UnsubscribeEffective ==
    [][ /\ hist'.op = "frame" => \E sub \in subs : sub.active
        /\ \A sub \in subs' : ~sub.active => ~sub.registered ]_vars

(* C24: the listener is registered once per run of the subscription       *)
(* effect and replacing the frame handler leaves the subscription as it    *)
(* is; a frame delivered while a registered listener is active is          *)
(* processed exactly once (at most one listener is live), after the frames *)
(* delivered before it, and its flush evaluation uses the chunkSeconds of  *)
(* the handler installed at that time.                                     *)
C24_StableSubscription ==
    [][ /\ Cardinality(LiveSubs) <= 1
        /\ Cardinality(subs') = hist'.mounts
        /\ hist'.op = "commit" => subs' = subs
        /\ (hist'.op \in {"frame", "dropped"} /\ LiveSubs # {}) =>
              /\ hist'.op = "frame"
              /\ subs' = subs
              /\ frameCount' = frameCount + 1
              /\ Len(levels') = Len(levels) + 1
              /\ LET before == hist.sinceFlush
                     seen   == IF hist'.fired
                               THEN (CHOOSE c \in calls' \ calls : TRUE).expect
                               ELSE hist'.sinceFlush
                     held   == IF hist'.fired
                               THEN (CHOOSE c \in calls' \ calls : TRUE).chunk
                               ELSE audioBuffer'
                 IN  /\ Len(seen) = Len(before) + 1
                     /\ SubSeq(seen, 1, Len(before)) = before
                     /\ held = Canonical(Flat(seen))
              /\ ~speaking' =>
                    (hist'.fired <=>
                       /\ ~transcribing
                       /\ hist'.len >= (sampleRateRef'
                                          * Max(10, Min(60, handlerChunkSeconds))) \div 10)
      ]_vars

C24_Witness ==
    /\ FrameDone
    /\ LiveSubs # {}
    /\ hist.mounts = 1
    /\ hist.settings = 1
    /\ handlerChunkSeconds = 20
    /\ frameCount = 2
    /\ hist.fired
    /\ hist.len = 16000
    /\ \E c \in calls : c.id = hist.call /\ c.expect = << Loud8, Loud8 >>

(* C26: 'post-call' is entered only from the 'processing' state of the     *)
(* recording that was stopped; the delayed transition scheduled by         *)
(* handleStopRecording does not take the app out of 'recording' when a new  *)
(* recording was started during the delay, so isRecording is never true    *)
(* while appState is 'post-call'.                                          *)
C26_PostCallFollowsProcessing ==
    [][ /\ (appState' = "post-call" /\ appState # "post-call") =>
              appState = "processing"
        /\ appState' = "post-call" => ~isRecording' ]_vars

(* C29: the text that save_session persisted for the stopped recording is  *)
(* the transcript shown on the post-call screen: it holds every accepted   *)
(* fragment, the result of a call still in flight at the stop included.    *)
C29_SavedTranscriptComplete ==
    (appState = "post-call" /\ lastSessionId # null) =>
        savedSessions[lastSessionId] = Trim(transcript)

(* C30: generateSummary makes at most retries + 1 API attempts, each one   *)
(* but the first after a failed attempt and a backoff of 1000 * 2^attempt  *)
(* ms; it returns at the first successful attempt and makes no further     *)
(* attempt, throws after the (retries + 1)-th failure, and, every attempt  *)
(* and timer terminating, always ends by returning or throwing.            *)
C30_BoundedRetry ==
    /\ [] LET g == summaryCall
          IN  /\ g.attempts <= g.retries + 1
              /\ g.pc = "calling" =>
                    /\ g.attempts = g.failures + 1
                    /\ g.waited = 1000 * (2 ^ g.failures - 1)
              /\ g.pc = "backoff" =>
                    /\ g.attempts = g.failures
                    /\ g.failures <= g.retries
                    /\ g.delay = 1000 * 2 ^ (g.failures - 1)
              /\ g.pc = "returned" => g.attempts = g.failures + 1
              /\ g.pc = "thrown" =>
                    /\ g.failures = g.retries + 1
                    /\ g.attempts = g.retries + 1
                    /\ g.waited = 1000 * (2 ^ g.retries - 1)
    /\ [][ summaryCall.pc \in {"returned", "thrown"} =>
             summaryCall'.attempts = summaryCall.attempts ]_vars
    /\ (summaryCall.pc = "calling" ~> summaryCall.pc \in {"returned", "thrown"})

C30_Witness ==
    /\ summaryCall.pc = "returned"
    /\ summaryCall.provider = "openai"
    /\ summaryCall.retries = 2
    /\ summaryCall.failures = 2
    /\ summaryCall.attempts = 3
    /\ summaryCall.waited = 3000
    /\ summaryCall.tokens = 7

(* The fragments joined by single spaces *)
RECURSIVE Joined(_)
Joined(fragments) ==
    IF fragments = << >> THEN << >>
    ELSE IF Len(fragments) = 1 THEN fragments[1]
    ELSE fragments[1] \o << " " >> \o Joined(Tail(fragments))

(* C28: when a call resolves with the text r that the last non-empty       *)
(* result of the recording had (only failed or empty results in between),  *)
(* the transcript stays as it is and holds r, once, as its last fragment;   *)
(* and no two adjacent fragments appended to the transcript are equal.     *)
C28_DedupAgainstLastAccepted ==
    [][ /\ transcript' = Joined(hist'.fragments)
        /\ \A i \in 1..(Len(hist'.fragments) - 1) :
               hist'.fragments[i] # hist'.fragments[i + 1]
        /\ (ResolveStep /\ hist.lastText # << >>
               /\ hist'.result.num = null /\ Stripped(hist'.result) = hist.lastText) =>
              /\ transcript' = transcript
              /\ hist'.fragments # << >>
              /\ hist'.fragments[Len(hist'.fragments)] = hist.lastText ]_vars

(* The frames that can still arrive, of at least 8000 samples each, bring  *)
(* pendingSamples to the duration threshold                                *)
FramesSuffice ==
    /\ hist.frames < MaxFlowFrames
    /\ Length(audioBuffer) + Length(Loud8) * (MaxFlowFrames - hist.frames)
          >= (8000 * Max(10, Min(60, handlerChunkSeconds))) \div 10

(* C25: while frames with samples keep arriving and every call settles,    *)
(* the samples waiting in pendingSamples are eventually all handed to a    *)
(* transcription call (or the recording is reset).                         *)
C25_Progress ==
    \A s \in 0..MaxResets :
        (hist.session = s /\ audioBuffer # << >> /\ FramesSuffice)
            ~> (hist.session # s \/ (hist.handed = hist.appended /\ audioBuffer = << >>))

C25_Witness ==
    /\ FrameDone
    /\ hist.fired
    /\ hist.frames = 3
    /\ hist.resets = 0
    /\ hist.dispatches = 2
    /\ hist.len = 28000
    /\ hist.handed = hist.appended
    /\ hist.appended = 36000
    /\ audioBuffer = << >>

====
